---- MODULE Spec2Model ----
(***************************************************************************)
(* PaperRef Hub (src/app.py): the BibTeX import pipeline of a Streamlit    *)
(* session -- record normalizer, exact-duplicate filter, similarity        *)
(* grouper, conflict review and merge engine -- and the session operations *)
(* that replace or edit the live library.                                  *)
(*                                                                         *)
(* A Python string is a sequence of one-character strings, a BibTeX entry  *)
(* (a Python dict) is a function from its keys to its values, and an       *)
(* insertion-ordered dict is a pair of aligned sequences (keys, vals).     *)
(* List indices of the source are 0-based; sequences here are 1-based, so  *)
(* group[k] of the source is group[k + 1] here.                            *)
(***************************************************************************)
EXTENDS Integers, Sequences, FiniteSets, TLC

(***************************************************************************)
(* Bounds of the model.                                                    *)
(***************************************************************************)
\* longest existing collection drawn by the merge-engine specification
MaxExisting == 2
\* longest incoming batch drawn by the merge-engine specification
MaxIncoming == 3
\* most entries written in one uploaded or remote file
MaxFileEntries == 2
\* most operations on the library or its cache file (import, confirm,
\* pull, save, load, edit) in one session
MaxOps == 2

(***************************************************************************)
(* Strings.                                                                *)
(***************************************************************************)
\* str.lower() on one character (the letters the model's strings use)
Lower(c) ==
    CASE c = "A" -> "a"
      [] c = "B" -> "b"
      [] c = "D" -> "d"
      [] c = "L" -> "l"
      [] OTHER -> c

\* the characters the pattern [^a-z0-9] leaves in place
IsAlnum(c) == c \in {"a", "b", "c", "d", "l", "o", "0", "1"}

\* str.lower() on a string
LowerStr(s) == [i \in 1..Len(s) |-> Lower(s[i])]

\* re.sub(r'[^a-z0-9]', '', title.lower())
normalize_title(title) == SelectSeq(LowerStr(title), IsAlnum)

\* re.sub(r'[^a-z0-9]', '', str(entry_id).lower())
normalize_id(entry_id) == SelectSeq(LowerStr(entry_id), IsAlnum)

\* code point of a character, for the order of Python's string comparison
Ord(c) ==
    CASE c = "!" -> 33
      [] c = "-" -> 45
      [] c = "0" -> 48
      [] c = "1" -> 49
      [] c = "A" -> 65
      [] c = "B" -> 66
      [] c = "D" -> 68
      [] c = "L" -> 76
      [] c = "a" -> 97
      [] c = "b" -> 98
      [] c = "c" -> 99
      [] c = "d" -> 100
      [] c = "l" -> 108
      [] c = "o" -> 111
      [] OTHER -> 127

\* s < t for Python strings (lexicographic by code point)
RECURSIVE StrLess(_, _)
StrLess(s, t) ==
    IF t = <<>> THEN FALSE
    ELSE IF s = <<>> THEN TRUE
    ELSE IF Ord(Head(s)) # Ord(Head(t)) THEN Ord(Head(s)) < Ord(Head(t))
    ELSE StrLess(Tail(s), Tail(t))

(***************************************************************************)
(* Entries (Python dicts produced by the BibTeX parser).                   *)
(***************************************************************************)
\* entry.get(key, default)
Get(entry, key, default) == IF key \in DOMAIN entry THEN entry[key] ELSE default

\* len(entry): the number of keys, ENTRYTYPE and ID included
FieldCount(entry) == Cardinality(DOMAIN entry)

\* entry[key] = value on a dict: the key is added when it is absent
SetField(entry, key, value) ==
    [k \in (DOMAIN entry) \cup {key} |-> IF k = key THEN value ELSE entry[k]]

\* an entry as the parser returns it: ENTRYTYPE, ID and the fields present
Entry(id, fields) ==
    [k \in {"ENTRYTYPE", "ID"} \cup DOMAIN fields |->
        IF k = "ENTRYTYPE" THEN "article"
        ELSE IF k = "ID" THEN id
        ELSE fields[k]]

(***************************************************************************)
(* Insertion-ordered dicts.                                                *)
(***************************************************************************)
EmptyDict == [keys |-> <<>>, vals |-> <<>>]

\* key in d
HasKey(d, key) == \E i \in 1..Len(d.keys) : d.keys[i] = key

\* d[key], for a key of d
Lookup(d, key) == d.vals[CHOOSE i \in 1..Len(d.keys) : d.keys[i] = key]

\* d[key] = value as delete-and-append: a present key moves to the end
StoreMovesLast(d, key, value) ==
    LET rest == {i \in 1..Len(d.keys) : d.keys[i] # key}
        idx == SelectSeq([k \in 1..Len(d.keys) |-> k], LAMBDA k : k \in rest)
    IN  [keys |-> Append([m \in 1..Len(idx) |-> d.keys[idx[m]]], key),
         vals |-> Append([m \in 1..Len(idx) |-> d.vals[idx[m]]], value)]

\* d[key] = value: a present key keeps its position, a new key goes last
Store(d, key, value) ==
    IF HasKey(d, key)
    THEN [d EXCEPT !.vals[CHOOSE i \in 1..Len(d.keys) : d.keys[i] = key] = value]
    ELSE [keys |-> Append(d.keys, key), vals |-> Append(d.vals, value)]

\* the map of the library keyed by the raw title, normalization forgotten
RECURSIVE RawTitleMapFrom(_, _)
RawTitleMapFrom(d, entries) ==
    IF entries = <<>> THEN d
    ELSE RawTitleMapFrom(Store(d, Get(Head(entries), "title", <<>>), Head(entries)),
                         Tail(entries))

TitleMapRawKeys(entries) == RawTitleMapFrom(EmptyDict, entries)

\* {normalize_title(e.get('title', '')): e for e in existing_entries}
RECURSIVE TitleMapFrom(_, _)
TitleMapFrom(d, entries) ==
    IF entries = <<>> THEN d
    ELSE TitleMapFrom(
            Store(d, normalize_title(Get(Head(entries), "title", <<>>)), Head(entries)),
            Tail(entries))

TitleMap(entries) == TitleMapFrom(EmptyDict, entries)

\* {normalize_id(e.get('ID', '')): e for e in existing_entries}
RECURSIVE IdMapFrom(_, _)
IdMapFrom(d, entries) ==
    IF entries = <<>> THEN d
    ELSE IdMapFrom(
            Store(d, normalize_id(Get(Head(entries), "ID", <<>>)), Head(entries)),
            Tail(entries))

IdMap(entries) == IdMapFrom(EmptyDict, entries)

(***************************************************************************)
(* BibTeX text (bibtexparser.loads / bibtexparser.dumps).                  *)
(* A text is the entries written in it, in order, and whether it uses an   *)
(* undefined string macro (month = jan without @string), on which the      *)
(* parser raises.  Both attempts of the source build the same default      *)
(* BibTexParser, so the second attempt fails exactly when the first does.  *)
(***************************************************************************)
\* Python's None
None == "None"

\* bibtexparser.loads(text), then the fallback with BibTexParser(): the
\* entries of the text, or the exception of the second attempt
Loads(text) ==
    IF text.undefined_macro
    THEN [raised |-> TRUE, entries |-> <<>>]
    ELSE [raised |-> FALSE, entries |-> text.entries]

\* the writer's sort key: str(entry.get('ID', '')).lower()
SortKey(entry) == LowerStr(Get(entry, "ID", <<>>))

\* sorted() is stable: an entry goes after the entries whose key is not larger
RECURSIVE InsertByKey(_, _)
InsertByKey(sorted, entry) ==
    IF sorted = <<>> THEN <<entry>>
    ELSE IF StrLess(SortKey(entry), SortKey(Head(sorted)))
         THEN <<entry>> \o sorted
         ELSE <<Head(sorted)>> \o InsertByKey(Tail(sorted), entry)

RECURSIVE SortedById(_, _)
SortedById(sorted, entries) ==
    IF entries = <<>> THEN sorted
    ELSE SortedById(InsertByKey(sorted, Head(entries)), Tail(entries))

\* bibtexparser.dumps(db): BibTexWriter writes the entries ordered by ID
\* (order_entries_by = ('ID',)), every value in braces
Dumps(entries) ==
    [undefined_macro |-> FALSE, entries |-> SortedById(<<>>, entries)]

(***************************************************************************)
(* Merge engine (merge_bib_data).                                          *)
(***************************************************************************)
\* the loop's iteration with >= for >: an incoming entry wins a tie
MergeStepTieWins(acc, entry) ==
    LET title == Get(entry, "title", <<>>)
        norm_title == normalize_title(title)
    IN  IF title = <<>> THEN acc
        ELSE IF HasKey(acc.map, norm_title)
        THEN IF FieldCount(entry) >= FieldCount(Lookup(acc.map, norm_title))
             THEN LET old_id == Get(Lookup(acc.map, norm_title), "ID",
                                    Get(entry, "ID", None))
                  IN  [map |-> Store(acc.map, norm_title, SetField(entry, "ID", old_id)),
                       added |-> acc.added,
                       updated |-> acc.updated + 1]
             ELSE acc
        ELSE [map |-> Store(acc.map, norm_title, entry),
              added |-> acc.added + 1,
              updated |-> acc.updated]

\* the loop's iteration without line 76: the winning entry keeps its own ID
MergeStepOwnId(acc, entry) ==
    LET title == Get(entry, "title", <<>>)
        norm_title == normalize_title(title)
    IN  IF title = <<>> THEN acc
        ELSE IF HasKey(acc.map, norm_title)
        THEN IF FieldCount(entry) > FieldCount(Lookup(acc.map, norm_title))
             THEN [map |-> Store(acc.map, norm_title, entry),
                   added |-> acc.added,
                   updated |-> acc.updated + 1]
             ELSE acc
        ELSE [map |-> Store(acc.map, norm_title, entry),
              added |-> acc.added + 1,
              updated |-> acc.updated]

\* the loop's iteration without lines 67-68: an untitled entry is merged
\* under the normalized title ''
MergeStepKeepsUntitled(acc, entry) ==
    LET title == Get(entry, "title", <<>>)
        norm_title == normalize_title(title)
    IN  IF HasKey(acc.map, norm_title)
        THEN IF FieldCount(entry) > FieldCount(Lookup(acc.map, norm_title))
             THEN LET old_id == Get(Lookup(acc.map, norm_title), "ID",
                                    Get(entry, "ID", None))
                  IN  [map |-> Store(acc.map, norm_title, SetField(entry, "ID", old_id)),
                       added |-> acc.added,
                       updated |-> acc.updated + 1]
             ELSE acc
        ELSE [map |-> Store(acc.map, norm_title, entry),
              added |-> acc.added + 1,
              updated |-> acc.updated]

\* one iteration of the loop over new_db.entries, on
\* acc = [map: entry_map, added: added_count, updated: updated_count]
MergeStep(acc, entry) ==
    LET title == Get(entry, "title", <<>>)
        norm_title == normalize_title(title)
    IN  IF title = <<>> THEN acc
        ELSE IF HasKey(acc.map, norm_title)
        THEN IF FieldCount(entry) > FieldCount(Lookup(acc.map, norm_title))
             THEN LET old_id == Get(Lookup(acc.map, norm_title), "ID",
                                    Get(entry, "ID", None))
                  IN  [map |-> Store(acc.map, norm_title, SetField(entry, "ID", old_id)),
                       added |-> acc.added,
                       updated |-> acc.updated + 1]
             ELSE acc
        ELSE [map |-> Store(acc.map, norm_title, entry),
              added |-> acc.added + 1,
              updated |-> acc.updated]

\* the state of the loop before its first iteration
MergeStart(existing_entries) ==
    [map |-> TitleMap(existing_entries), added |-> 0, updated |-> 0]

RECURSIVE MergeLoop(_, _)
MergeLoop(acc, entries) ==
    IF entries = <<>> THEN acc
    ELSE MergeLoop(MergeStep(acc, Head(entries)), Tail(entries))

\* what the function returns from the loop's final state
MergeResult(acc) ==
    [entries |-> acc.map.vals, added |-> acc.added, updated |-> acc.updated]

\* merge_bib_data(existing_entries, new_bib_str)
merge_bib_data(existing_entries, new_bib_str) ==
    LET new_db == Loads(new_bib_str)
    IN  IF new_db.raised
        THEN [entries |-> existing_entries, added |-> 0, updated |-> 0]
        ELSE MergeResult(MergeLoop(MergeStart(existing_entries), new_db.entries))

(***************************************************************************)
(* Exact-duplicate filter (remove_exact_duplicates).                       *)
(***************************************************************************)
\* the key without the ID: entries are told apart by title alone
EntryKeyTitleOnly(entry) ==
    <<normalize_title(Get(entry, "title", <<>>)), <<>>>>

\* entry_key = (norm_title, norm_id)
EntryKey(entry) ==
    <<normalize_title(Get(entry, "title", <<>>)), normalize_id(Get(entry, "ID", <<>>))>>

RECURSIVE DedupScan(_, _, _)
DedupScan(seen_entries, unique_entries, entries) ==
    IF entries = <<>> THEN unique_entries
    ELSE IF EntryKey(Head(entries)) \notin seen_entries
         THEN DedupScan(seen_entries \cup {EntryKey(Head(entries))},
                        Append(unique_entries, Head(entries)), Tail(entries))
         ELSE DedupScan(seen_entries, unique_entries, Tail(entries))

remove_exact_duplicates(entries) == DedupScan({}, <<>>, entries)

(***************************************************************************)
(* Similarity grouper (find_similar_entries).                              *)
(***************************************************************************)
\* the elements of a sequence at the positions of S, in order
AtPositions(s, S) ==
    LET idx == SelectSeq([k \in 1..Len(s) |-> k], LAMBDA k : k \in S)
    IN  [m \in 1..Len(idx) |-> s[idx[m]]]

\* the later, not yet processed entries that match anchor i on ID or title
GroupMembers(entries, i, processed) ==
    {j \in (i + 1)..Len(entries) :
        /\ j \notin processed
        /\ \/ normalize_id(Get(entries[i], "ID", <<>>))
                = normalize_id(Get(entries[j], "ID", <<>>))
           \/ normalize_title(Get(entries[i], "title", <<>>))
                = normalize_title(Get(entries[j], "title", <<>>))}

\* the first disjunct of the test against the library (line 139)
MatchesByTitle(entry1, existing_entries) ==
    LET title1 == normalize_title(Get(entry1, "title", <<>>))
        existing_title_map == TitleMap(existing_entries)
    IN  /\ HasKey(existing_title_map, title1)
        /\ Lookup(existing_title_map, title1)["ID"] = Get(entry1, "ID", <<>>)

\* the second disjunct (line 140) subscripts ['title'] on the library entry
\* found by ID: a KeyError when that entry has no title
IdLookupRaises(entry1, existing_entries) ==
    LET id1 == normalize_id(Get(entry1, "ID", <<>>))
        existing_id_map == IdMap(existing_entries)
    IN  /\ HasKey(existing_id_map, id1)
        /\ "title" \notin DOMAIN Lookup(existing_id_map, id1)

MatchesById(entry1, existing_entries) ==
    LET id1 == normalize_id(Get(entry1, "ID", <<>>))
        existing_id_map == IdMap(existing_entries)
    IN  /\ HasKey(existing_id_map, id1)
        /\ Lookup(existing_id_map, id1)["title"] = Get(entry1, "title", <<>>)

\* the loop over the anchors i..len(entries): the groups found, or raised
RECURSIVE GroupScan(_, _, _, _, _)
GroupScan(entries, existing_entries, i, processed, similar_groups) ==
    IF i > Len(entries) THEN [raised |-> FALSE, groups |-> similar_groups]
    ELSE IF i \in processed
    THEN GroupScan(entries, existing_entries, i + 1, processed, similar_groups)
    ELSE LET members == GroupMembers(entries, i, processed)
             similar_group == <<entries[i]>> \o AtPositions(entries, members)
             done == processed \cup {i} \cup members
         IN  IF MatchesByTitle(entries[i], existing_entries)
             THEN GroupScan(entries, existing_entries, i + 1, done, similar_groups)
             ELSE IF IdLookupRaises(entries[i], existing_entries)
             THEN [raised |-> TRUE, groups |-> <<>>]
             ELSE IF MatchesById(entries[i], existing_entries)
             THEN GroupScan(entries, existing_entries, i + 1, done, similar_groups)
             ELSE IF Len(similar_group) > 1
             THEN GroupScan(entries, existing_entries, i + 1, done,
                            Append(similar_groups, similar_group))
             ELSE GroupScan(entries, existing_entries, i + 1, done, similar_groups)

find_similar_entries(entries, existing_entries) ==
    GroupScan(entries, existing_entries, 1, {}, <<>>)

(***************************************************************************)
(* State.                                                                  *)
(***************************************************************************)
VARIABLES
    \* st.session_state of the running session
    db_entries,           \* st.session_state.db_entries, the live library
    session_keys,         \* which of the import keys st.session_state holds
    import_phase,         \* st.session_state.import_phase, when held
    similar_groups,       \* st.session_state.similar_groups, when held
    all_new_entries,      \* st.session_state.all_new_entries, when held
    conflict_selections,  \* st.session_state.conflict_selections, when held:
                          \* group index i (of key group_i_selection) -> option
    cache,                \* the library file under cache/libraries, if written
    last,                 \* what the latest script run did (history)
    ops,                  \* library-changing operations so far (history)
    \* one call of the merge engine followed step by step
    m_text,               \* new_bib_str
    m_existing,           \* existing_entries of the first call
    m_pc,                 \* position in the call
    m_round,              \* 1: merge(C, B); 2: merge(M, B)
    m_k,                  \* entries of new_db.entries consumed by the loop
    m_prev,               \* the loop state before the latest iteration
    m_acc,                \* the loop state
    m_first,              \* what the first call returned
    m_second,             \* what the second call returned
    m_filtered            \* remove_exact_duplicates(new_db.entries)

session_vars ==
    <<db_entries, session_keys, import_phase, similar_groups, all_new_entries,
      conflict_selections, cache, last, ops>>

engine_vars ==
    <<m_text, m_existing, m_pc, m_round, m_k, m_prev, m_acc, m_first, m_second,
      m_filtered>>

vars == <<session_vars, engine_vars>>

\* the keys of st.session_state the import pipeline creates and deletes
ImportKeys ==
    {"similar_groups", "all_new_entries", "import_phase", "conflict_selections",
     "conflicts_processed"}

(***************************************************************************)
(* Values the model draws its inputs from.                                 *)
(***************************************************************************)
TitleDL == <<"D", "L">>
TitleDl == <<"d", "l", "!">>
TitleO == <<"o">>
TitleBang == <<"!">>
TitleOBang == <<"o", "!">>
Author == <<"a", "b">>
Year == <<"0", "1">>

\* entries of the texts the merge-engine specification draws
EnginePool ==
    { Entry(<<"a">>, [title |-> TitleDL, author |-> Author]),
      Entry(<<"B">>, [title |-> TitleDl, author |-> Author, year |-> Year]),
      Entry(<<"c">>, [title |-> TitleO]),
      Entry(<<"-">>, <<>>),
      Entry(<<"-", "-">>, [title |-> TitleBang, year |-> Year]) }

\* the sequences over S of length at most n
SeqsUpTo(S, n) == UNION {[1..k -> S] : k \in 0..n}

(***************************************************************************)
(* The session before any operation (lines 19-22: db_entries = []).        *)
(***************************************************************************)
NoOp ==
    [op |-> "none",        \* the operation
     files |-> 0,          \* import: the uploaded files
     failed |-> 0,         \* import: those using an undefined macro
     readable |-> {},      \* import: the entries written in the other files
     merged |-> FALSE,     \* direct_merge_entries was called
     handed |-> <<>>,      \* its argument entries_to_import
     group |-> 0,          \* select: the group whose selectbox was changed
     option |-> 0]         \* select: the option chosen

NoFile == [exists |-> FALSE, text |-> [undefined_macro |-> FALSE, entries |-> <<>>]]

SessionInit ==
    /\ db_entries = <<>>
    /\ session_keys = {}
    /\ import_phase = "none"
    /\ similar_groups = <<>>
    /\ all_new_entries = <<>>
    /\ conflict_selections = <<>>
    /\ cache = NoFile
    /\ last = NoOp
    /\ ops = 0

EmptyAcc == [map |-> EmptyDict, added |-> 0, updated |-> 0]
NoResult == [entries |-> <<>>, added |-> 0, updated |-> 0]

EngineIdle ==
    /\ m_text = [undefined_macro |-> FALSE, entries |-> <<>>]
    /\ m_existing = <<>>
    /\ m_pc = "idle"
    /\ m_round = 1
    /\ m_k = 0
    /\ m_prev = EmptyAcc
    /\ m_acc = EmptyAcc
    /\ m_first = NoResult
    /\ m_second = NoResult
    /\ m_filtered = <<>>

(***************************************************************************)
(* The merge engine, step by step: merge(C, B), then merge(M, B) on what   *)
(* the first call returned, with the exact-duplicate filter applied to the *)
(* same entries beforehand.                                                *)
(***************************************************************************)
EngineInit ==
    /\ SessionInit
    /\ m_text \in [undefined_macro : BOOLEAN, entries : SeqsUpTo(EnginePool, MaxIncoming)]
    /\ m_existing \in SeqsUpTo(EnginePool, MaxExisting)
    /\ m_pc = "start"
    /\ m_round = 1
    /\ m_k = 0
    /\ m_prev = EmptyAcc
    /\ m_acc = EmptyAcc
    /\ m_first = NoResult
    /\ m_second = NoResult
    /\ m_filtered = <<>>

\* existing_entries of the call in progress
MergeExisting == IF m_round = 1 THEN m_existing ELSE m_first.entries

\* remove_exact_duplicates on the entries of the text
ApplyFilter ==
    /\ m_pc = "start"
    /\ m_filtered' = remove_exact_duplicates(m_text.entries)
    /\ m_pc' = "call"
    /\ UNCHANGED <<m_text, m_existing, m_round, m_k, m_prev, m_acc, m_first, m_second>>
    /\ UNCHANGED session_vars

\* lines 50-64: parse, build entry_map, zero the counters; a text that does
\* not parse returns (existing_entries, 0, 0) at once
MergeBegin ==
    /\ m_pc = "call"
    /\ IF Loads(m_text).raised
       THEN /\ m_pc' = IF m_round = 1 THEN "call" ELSE "done"
            /\ m_round' = 2
            /\ m_first' = IF m_round = 1
                          THEN merge_bib_data(MergeExisting, m_text) ELSE m_first
            /\ m_second' = IF m_round = 2
                           THEN merge_bib_data(MergeExisting, m_text) ELSE m_second
            /\ UNCHANGED <<m_k, m_prev, m_acc>>
       ELSE /\ m_pc' = "loop"
            /\ m_k' = 0
            /\ m_acc' = MergeStart(MergeExisting)
            /\ m_prev' = MergeStart(MergeExisting)
            /\ UNCHANGED <<m_round, m_first, m_second>>
    /\ UNCHANGED <<m_text, m_existing, m_filtered>>
    /\ UNCHANGED session_vars

\* lines 66-81: one iteration of the loop
MergeEntry ==
    /\ m_pc = "loop"
    /\ m_k < Len(Loads(m_text).entries)
    /\ m_prev' = m_acc
    /\ m_acc' = MergeStep(m_acc, Loads(m_text).entries[m_k + 1])
    /\ m_k' = m_k + 1
    /\ UNCHANGED <<m_text, m_existing, m_pc, m_round, m_first, m_second, m_filtered>>
    /\ UNCHANGED session_vars

\* line 83: return list(entry_map.values()), added_count, updated_count
MergeReturn ==
    /\ m_pc = "loop"
    /\ m_k = Len(Loads(m_text).entries)
    /\ IF m_round = 1
       THEN /\ m_first' = MergeResult(m_acc)
            /\ m_round' = 2
            /\ m_pc' = "call"
            /\ UNCHANGED m_second
       ELSE /\ m_second' = MergeResult(m_acc)
            /\ m_pc' = "done"
            /\ UNCHANGED <<m_round, m_first>>
    /\ UNCHANGED <<m_text, m_existing, m_k, m_prev, m_acc, m_filtered>>
    /\ UNCHANGED session_vars

EngineNext == ApplyFilter \/ MergeBegin \/ MergeEntry \/ MergeReturn

MergeSpec == EngineInit /\ [][EngineNext]_vars

(***************************************************************************)
(* The same calls on texts and libraries with untitled entries: the title  *)
(* absent, or present and empty (title = {}), beside other fields.         *)
(***************************************************************************)
UntitledPool ==
    { Entry(<<"a">>, [title |-> TitleDL, author |-> Author]),
      Entry(<<"-">>, <<>>),
      Entry(<<"d">>, [title |-> <<>>, author |-> Author, year |-> Year]),
      Entry(<<"-", "-">>, [title |-> TitleBang, year |-> Year]) }

UntitledInit ==
    /\ SessionInit
    /\ m_text \in [undefined_macro : BOOLEAN, entries : SeqsUpTo(UntitledPool, MaxIncoming)]
    /\ m_existing \in SeqsUpTo(UntitledPool, MaxExisting)
    /\ m_pc = "start"
    /\ m_round = 1
    /\ m_k = 0
    /\ m_prev = EmptyAcc
    /\ m_acc = EmptyAcc
    /\ m_first = NoResult
    /\ m_second = NoResult
    /\ m_filtered = <<>>

UntitledSpec == UntitledInit /\ [][EngineNext]_vars

(***************************************************************************)
(* The similarity grouper on its own: find_similar_entries(entries,        *)
(* existing_entries) called once on a drawn batch and a drawn library.     *)
(* What it returns is kept in similar_groups; m_pc tells whether it        *)
(* returned or raised.                                                     *)
(***************************************************************************)
GroupInit ==
    /\ SessionInit
    /\ m_text \in [undefined_macro : {FALSE}, entries : SeqsUpTo(EnginePool, MaxIncoming)]
    /\ m_existing \in SeqsUpTo(EnginePool, MaxExisting)
    /\ m_pc = "start"
    /\ m_round = 1
    /\ m_k = 0
    /\ m_prev = EmptyAcc
    /\ m_acc = EmptyAcc
    /\ m_first = NoResult
    /\ m_second = NoResult
    /\ m_filtered = <<>>

\* lines 103-147: the call, ending in return similar_groups or in the
\* KeyError of line 140
FindSimilar ==
    /\ m_pc = "start"
    /\ LET found == find_similar_entries(m_text.entries, m_existing)
       IN  /\ m_pc' = IF found.raised THEN "raised" ELSE "returned"
           /\ similar_groups' = found.groups
    /\ UNCHANGED <<db_entries, session_keys, import_phase, all_new_entries,
                   conflict_selections, cache, last, ops>>
    /\ UNCHANGED <<m_text, m_existing, m_round, m_k, m_prev, m_acc, m_first,
                   m_second, m_filtered>>

GroupSpec == GroupInit /\ [][FindSimilar]_vars

(***************************************************************************)
(* The session: what one script run does to st.session_state.              *)
(***************************************************************************)
\* entries of the uploaded and remote files
SessionPool ==
    { Entry(<<"a">>, [title |-> TitleDL, author |-> Author]),
      Entry(<<"c">>, [title |-> TitleDl, author |-> Author, year |-> Year]),
      Entry(<<"c">>, [title |-> TitleO]),
      Entry(<<"d">>, [title |-> TitleOBang, year |-> Year]) }

\* the sequences over S of length at most n that repeat no element
DistinctSeqsUpTo(S, n) ==
    {q \in SeqsUpTo(S, n) : \A i, j \in 1..Len(q) : i # j => q[i] # q[j]}

\* texts that parse, with at most n entries, no entry written twice
GoodTexts(n) == [undefined_macro : {FALSE}, entries : DistinctSeqsUpTo(SessionPool, n)]

\* texts that use an undefined macro, beside no entry or one entry (what
\* they hold is never read: the parser raises)
BadTexts ==
    [undefined_macro : {TRUE},
     entries : {<<>>, <<Entry(<<"a">>, [title |-> TitleDL, author |-> Author])>>}]

\* the texts of a file
Texts == GoodTexts(MaxFileEntries) \cup BadTexts

\* the uploads of one Import Files click: one file, or two files
Uploads == {<<f>> : f \in Texts} \cup {<<f, g>> : f, g \in Texts}

\* most entries of a batch, and so of a similarity group
MaxBatch == 2 * MaxFileEntries

\* what the GET of sync_from_cloud finds: no file (404), or a file
Responses == {NoFile} \cup {[exists |-> TRUE, text |-> t] : t \in Texts}

\* lines 156-172: the entries of the files that parse, in upload order
RECURSIVE ParsedEntries(_)
ParsedEntries(uploaded_files) ==
    IF uploaded_files = <<>> THEN <<>>
    ELSE (IF Loads(Head(uploaded_files)).raised THEN <<>>
          ELSE Loads(Head(uploaded_files)).entries)
         \o ParsedEntries(Tail(uploaded_files))

\* the uploaded files that use an undefined macro
FailedFiles(uploaded_files) ==
    Cardinality({i \in 1..Len(uploaded_files) : uploaded_files[i].undefined_macro})

\* the entries written in the other files
ReadableEntries(uploaded_files) ==
    UNION {{uploaded_files[i].entries[j] : j \in 1..Len(uploaded_files[i].entries)} :
             i \in {n \in 1..Len(uploaded_files) : ~uploaded_files[n].undefined_macro}}

\* no selectbox was changed in this run
NoChange == [group |-> -1, option |-> 0]

\* lines 217-241, for the groups i.. : the selection of a group is created at
\* 0 when absent, the selectbox is drawn at the stored index (it raises when
\* the index is not an option) and what it returns is stored
RECURSIVE RenderFrom(_, _, _, _)
RenderFrom(i, groups, selections, change) ==
    IF i = Len(groups) THEN [selections |-> selections, completed |-> TRUE]
    ELSE LET stored == IF i \in DOMAIN selections THEN selections
                       ELSE (i :> 0) @@ selections
         IN  IF stored[i] >= Len(groups[i + 1])
             THEN [selections |-> stored, completed |-> FALSE]
             ELSE RenderFrom(i + 1, groups,
                     [stored EXCEPT ![i] = IF change.group = i THEN change.option ELSE @],
                     change)

\* show_conflict_resolution up to the button: the selections after the run,
\* and whether the run reached the Continue Import button
Render(groups, selections, change) == RenderFrom(0, groups, selections, change)

\* where a run can end: at an element call, where Streamlit ends the run
\* when the user has interacted meanwhile, or at the end of what the click
\* does.  The element calls that lie between two writes of the session
\* state: st.error (line 171), st.warning (185), st.success (317, 496, 561)
\* and, on the review page, st.subheader (215), the st.write of a group (218)
\* and the st.selectbox of a group (230); the elements drawn after the
\* selectbox of a group leave what the st.write of the next group leaves
RunEnds ==
    {"st.error", "st.warning", "st.success", "st.subheader", "st.write",
     "st.selectbox", "end"}

\* the loop of lines 217-241 over the first g groups
RenderFirst(g, groups, selections, change) ==
    Render(SubSeq(groups, 1, g), selections, change)

\* lines 225-226 for group g: its selection is created at 0 when absent
WithDefault(selections, g) ==
    IF g \in DOMAIN selections THEN selections ELSE (g :> 0) @@ selections

\* the groups at whose st.write or st.selectbox a run can end once the
\* selections of the groups before `least` are stored: those the loop
\* reaches without an exception
PageReaches(groups, selections, change, least) ==
    {g \in least..(Len(groups) - 1) : RenderFirst(g, groups, selections, change).completed}

\* conflict_selections as a run can leave it that shows the review page and
\* ends at `ended`, past the store of the groups before `least`
PageOutcomes(groups, selections, change, ended, least) ==
    IF ended = "end" THEN {Render(groups, selections, change).selections}
    ELSE IF ended = "st.subheader" /\ least = 0 THEN {selections}
    ELSE IF ended = "st.write"
    THEN {RenderFirst(g, groups, selections, change).selections :
             g \in PageReaches(groups, selections, change, least)}
    ELSE IF ended = "st.selectbox"
    THEN {WithDefault(RenderFirst(g, groups, selections, change).selections, g) :
             g \in PageReaches(groups, selections, change, least)}
    ELSE {}

\* the same for a run that shows the page the session is on: the review
\* page, or the main page, which writes none of the import keys
ShownOutcomes(ended) ==
    IF "import_phase" \in session_keys /\ import_phase = "review"
    THEN PageOutcomes(similar_groups, conflict_selections, NoChange, ended, 0)
    ELSE IF ended = "end" THEN {conflict_selections} ELSE {}

\* lines 278-291: the selected entry of every group, then the entries of the
\* batch whose ID is the ID of no group member
resolved_entries(groups, selections, batch) ==
    LET chosen == [g \in 1..Len(groups) |-> groups[g][Get(selections, g - 1, 0) + 1]]
        conflict_ids ==
            UNION {{Get(groups[g][m], "ID", <<>>) : m \in 1..Len(groups[g])} :
                     g \in 1..Len(groups)}
        non_conflicting == SelectSeq(batch, LAMBDA e : Get(e, "ID", <<>>) \notin conflict_ids)
    IN  chosen \o non_conflicting

\* lines 320-322: the keys left after the clean-up of direct_merge_entries
CleanUp(keys) == keys \ ImportKeys

\* the value a key reads as once it is deleted
Cleared(keys, key, value, default) == IF key \in keys THEN value ELSE default

\* direct_merge_entries(entries_to_import), called with import_phase = phase
\* and conflict_selections = selections: the library becomes the merge of the
\* dumped entries (line 313); a run that goes past st.success (line 317)
\* deletes the import keys and reruns the script, a run ended there leaves
\* them as they are
direct_merge_entries(entries_to_import, op, phase, selections, ended) ==
    /\ db_entries' = merge_bib_data(db_entries, Dumps(entries_to_import)).entries
    /\ IF ended = "st.success"
       THEN /\ session_keys' = session_keys \cup {"import_phase"}
            /\ import_phase' = phase
            /\ conflict_selections' = selections
            /\ UNCHANGED <<similar_groups, all_new_entries>>
       ELSE /\ session_keys' = CleanUp(session_keys \cup {"import_phase"})
            /\ import_phase' = Cleared(session_keys', "import_phase", phase, "none")
            /\ similar_groups' = Cleared(session_keys', "similar_groups", similar_groups, <<>>)
            /\ all_new_entries' =
                  Cleared(session_keys', "all_new_entries", all_new_entries, <<>>)
            /\ conflict_selections' =
                  Cleared(session_keys', "conflict_selections", selections, <<>>)
    /\ last' = [op EXCEPT !.merged = TRUE, !.handed = entries_to_import]

\* the review page is shown (lines 571-573)
InReview == "import_phase" \in session_keys /\ import_phase = "review"

\* the Import Files button: process_uploaded_files, and in the same run the
\* review page when the import stopped for review.  Line 153 sets
\* import_phase = 'processing' before anything else, so a run ended at the
\* st.error of a file that does not parse (line 171) or at the st.warning
\* before the stores of lines 188-190 leaves that and nothing more; a run
\* ended on the review page leaves the stores and the selections created
\* or stored so far.  The values the function computes once (all_new_entries
\* of line 154, of line 181, similar_groups of line 182) are bound once
ImportFiles(uploaded_files, ended) ==
    /\ ops < MaxOps
    /\ ended = "st.error" => FailedFiles(uploaded_files) > 0
    /\ ops' = ops + 1
    /\ UNCHANGED cache
    /\ \E parsed \in {ParsedEntries(uploaded_files)} :
       \E filtered \in {remove_exact_duplicates(parsed)} :
       \E found \in {find_similar_entries(filtered, db_entries)} :
       \E op \in {[NoOp EXCEPT !.op = "import",
                               !.files = Len(uploaded_files),
                               !.failed = FailedFiles(uploaded_files),
                               !.readable = ReadableEntries(uploaded_files)]} :
          IF parsed = <<>> \/ found.raised
          THEN \* "No valid entries found", or the KeyError of line 140
               /\ ended = "end"
               /\ session_keys' = session_keys \cup {"import_phase"}
               /\ import_phase' = "processing"
               /\ last' = op
               /\ UNCHANGED <<db_entries, similar_groups, all_new_entries,
                              conflict_selections>>
          ELSE IF ended = "st.error" \/ (ended = "st.warning" /\ found.groups # <<>>)
          THEN /\ session_keys' = session_keys \cup {"import_phase"}
               /\ import_phase' = "processing"
               /\ last' = op
               /\ UNCHANGED <<db_entries, similar_groups, all_new_entries,
                              conflict_selections>>
          ELSE IF found.groups # <<>>
          THEN /\ session_keys' = session_keys \cup
                     {"import_phase", "similar_groups", "all_new_entries",
                      "conflict_selections"}
               /\ import_phase' = "review"
               /\ similar_groups' = found.groups
               /\ all_new_entries' = filtered
               /\ conflict_selections' \in
                     PageOutcomes(found.groups, conflict_selections, NoChange,
                                  ended, 0)
               /\ last' = op
               /\ UNCHANGED db_entries
          ELSE /\ ended \in {"st.success", "end"}
               /\ direct_merge_entries(filtered, op, "processing",
                                       conflict_selections, ended)
    /\ UNCHANGED engine_vars

\* the user picks option k in the selectbox of group i, which an earlier run
\* has drawn: a rerun of the script that shows the review page again and
\* stores the pick (line 241), ending there or later
SelectOption(i, k, ended) ==
    /\ InReview
    /\ i \in 0..(Len(similar_groups) - 1)
    /\ k \in 0..(Len(similar_groups[i + 1]) - 1)
    /\ \A j \in 0..i :
          j \in DOMAIN conflict_selections
             /\ conflict_selections[j] < Len(similar_groups[j + 1])
    /\ conflict_selections' \in
          PageOutcomes(similar_groups, conflict_selections,
                       [group |-> i, option |-> k], ended, i + 1)
    /\ last' = [NoOp EXCEPT !.op = "select", !.group = i, !.option = k]
    /\ UNCHANGED <<db_entries, session_keys, import_phase, similar_groups,
                   all_new_entries, cache, ops>>
    /\ UNCHANGED engine_vars

\* any other rerun while the review page is shown
RerunReview(ended) ==
    /\ InReview
    /\ conflict_selections' \in
          PageOutcomes(similar_groups, conflict_selections, NoChange, ended, 0)
    /\ last' = [NoOp EXCEPT !.op = "rerun"]
    /\ UNCHANGED <<db_entries, session_keys, import_phase, similar_groups,
                   all_new_entries, cache, ops>>
    /\ UNCHANGED engine_vars

\* the Continue Import button (lines 277-293): the button is drawn by a run
\* that has created the selection of every group, and exists when the
\* render reaches it; st.rerun() in direct_merge_entries ends the run, so
\* lines 294-295 never execute
ContinueImport(ended) ==
    /\ ops < MaxOps
    /\ InReview
    /\ ended \in {"st.success", "end"}
    /\ \A j \in 0..(Len(similar_groups) - 1) : j \in DOMAIN conflict_selections
    /\ Render(similar_groups, conflict_selections, NoChange).completed
    /\ direct_merge_entries(
          resolved_entries(similar_groups,
                           Render(similar_groups, conflict_selections, NoChange).selections,
                           all_new_entries),
          [NoOp EXCEPT !.op = "continue"],
          import_phase,
          Render(similar_groups, conflict_selections, NoChange).selections,
          ended)
    /\ ops' = ops + 1
    /\ UNCHANGED cache
    /\ UNCHANGED engine_vars

\* the Pull and Import from WebDAV buttons: sync_from_cloud replaces the
\* library by the entries of the remote file (line 435), and the caller
\* saves it to the cache (lines 498, 563) unless the run ends at the
\* st.success before (lines 496, 561); a 404 or a text that does not parse
\* changes nothing.  The buttons are in the sidebar: the run goes on to the
\* page the session is on
SyncFromCloud(response, ended) ==
    /\ ops < MaxOps
    /\ ops' = ops + 1
    /\ IF response.exists /\ ~Loads(response.text).raised
       THEN /\ db_entries' = Loads(response.text).entries
            /\ IF ended = "st.success"
               THEN UNCHANGED <<cache, conflict_selections>>
               ELSE /\ cache' = [exists |-> TRUE,
                                 text |-> Dumps(Loads(response.text).entries)]
                    /\ conflict_selections' \in ShownOutcomes(ended)
       ELSE /\ conflict_selections' \in ShownOutcomes(ended)
            /\ UNCHANGED <<db_entries, cache>>
    /\ last' = [NoOp EXCEPT !.op = "sync"]
    /\ UNCHANGED <<session_keys, import_phase, similar_groups, all_new_entries>>
    /\ UNCHANGED engine_vars

\* the buttons that write the library to the cache
SaveButtons == {"Save Library", "Push"}

\* the Save Library button (lines 580-587) is on the main page, which the
\* review page replaces (st.stop() of line 573); the Push button of the
\* sidebar (lines 502-512) saves after a successful upload of a library
\* that is not empty, and the run goes on to the page the session is on.
\* The cache file holds the dumped library
SaveLibrary(button, ended) ==
    /\ ops < MaxOps
    /\ button = "Save Library" => ~InReview
    /\ button = "Push" => db_entries # <<>>
    /\ ops' = ops + 1
    /\ cache' = [exists |-> TRUE, text |-> Dumps(db_entries)]
    /\ conflict_selections' \in ShownOutcomes(ended)
    /\ last' = [NoOp EXCEPT !.op = "save"]
    /\ UNCHANGED <<db_entries, session_keys, import_phase, similar_groups,
                   all_new_entries>>
    /\ UNCHANGED engine_vars

\* the load button of a cached library (lines 533-538): the library becomes
\* the entries of the cache file, unless it holds none; the script reruns
\* and shows the page the session is on
LoadLibrary(ended) ==
    /\ ops < MaxOps
    /\ cache.exists
    /\ ~Loads(cache.text).raised
    /\ Loads(cache.text).entries # <<>>
    /\ ops' = ops + 1
    /\ db_entries' = Loads(cache.text).entries
    /\ conflict_selections' \in ShownOutcomes(ended)
    /\ last' = [NoOp EXCEPT !.op = "load"]
    /\ UNCHANGED <<session_keys, import_phase, similar_groups, all_new_entries, cache>>
    /\ UNCHANGED engine_vars

\* str(v).lower() of the value of a field
FieldText(entry, key) ==
    IF key = "ENTRYTYPE" THEN <<"a", "r", "t", "i", "c", "l", "e">>
    ELSE LowerStr(entry[key])

\* q in s
Contains(s, q) ==
    \E k \in 0..(Len(s) - Len(q)) : SubSeq(s, k + 1, k + Len(q)) = q

\* lines 608-621: the entry is in filtered_entries for the search text q (no
\* blank in q, so a match lies within one value of the joined content)
Filtered(entry, q) ==
    q = <<>> \/ \E key \in DOMAIN entry : Contains(FieldText(entry, key), LowerStr(q))

\* the rows of the list the page reaches for the search text q: a filtered
\* row with the ID of an earlier filtered row repeats a widget key
\* (chk_<ID>), which ends the run
RowDrawn(i, q) ==
    /\ Filtered(db_entries[i], q)
    /\ \A j, k \in {n \in 1..i : Filtered(db_entries[n], q)} :
          j # k => Get(db_entries[j], "ID", <<>>) # Get(db_entries[k], "ID", <<>>)

\* what the user types in the search box
SearchTexts == {<<>>, <<"o">>, <<"d", "l">>}

\* the Save button of the edit form of record i (lines 663-674), on the page
\* under some search text, the author left as shown
EditEntry(i, new_title, new_id) ==
    /\ ops < MaxOps
    /\ ~InReview
    /\ i \in 1..Len(db_entries)
    /\ \E q \in SearchTexts : RowDrawn(i, q)
    /\ ops' = ops + 1
    /\ db_entries' =
          [db_entries EXCEPT ![i] =
              SetField(
                  SetField(SetField(@, "title", new_title),
                           "author", Get(db_entries[i], "author", <<>>)),
                  "ID", new_id)]
    /\ last' = [NoOp EXCEPT !.op = "edit"]
    /\ UNCHANGED <<session_keys, import_phase, similar_groups, all_new_entries,
                   conflict_selections, cache>>
    /\ UNCHANGED engine_vars

\* what the user types in the edit form
EditTitles == {TitleDl, TitleO}
EditIds == {<<"a">>, <<"c">>}

Init == SessionInit /\ EngineIdle

Next ==
    \/ \E uploaded_files \in Uploads, ended \in RunEnds : ImportFiles(uploaded_files, ended)
    \/ \E i \in 0..(MaxBatch - 1), k \in 0..(MaxBatch - 1), ended \in RunEnds :
          SelectOption(i, k, ended)
    \/ \E ended \in RunEnds : RerunReview(ended)
    \/ \E ended \in RunEnds : ContinueImport(ended)
    \/ \E response \in Responses, ended \in RunEnds : SyncFromCloud(response, ended)
    \/ \E button \in SaveButtons, ended \in RunEnds : SaveLibrary(button, ended)
    \/ \E ended \in RunEnds : LoadLibrary(ended)
    \/ \E i \in 1..MaxBatch, new_title \in EditTitles, new_id \in EditIds :
          EditEntry(i, new_title, new_id)

Spec == Init /\ [][Next]_vars

(***************************************************************************)
(* Properties of the merge engine and of the filter (MergeSpec).           *)
(***************************************************************************)
\* no two records of a collection share normalize_title(title)
TitleUnique(entries) ==
    \A i, j \in 1..Len(entries) :
        i # j => normalize_title(Get(entries[i], "title", <<>>))
                   # normalize_title(Get(entries[j], "title", <<>>))

\* C1: merge idempotence -- if (M, a1, u1) = merge(C, B), then merge(M, B)
\* returns added = 0, updated = 0 and a collection equal to M, record by
\* record and in the same order.
C1_MergeIdempotent ==
    m_pc = "done" =>
        /\ m_second.added = 0
        /\ m_second.updated = 0
        /\ m_second.entries = m_first.entries

\* the first call added a record and replaced another, then the second ran
C1_Witness ==
    /\ m_pc = "done"
    /\ m_first.added > 0
    /\ m_first.updated > 0
    /\ m_first.entries # m_existing

\* C2: title uniqueness of the merge output -- whatever the existing
\* collection (title collisions included) and the incoming batch, the
\* collection the merge engine returns holds no two records with the same
\* normalized title.
C2_OutputTitleUnique ==
    (m_round = 2 /\ ~Loads(m_text).raised) => TitleUnique(m_first.entries)

\* the existing collection collided on a title and the batch repeated one
C2_Witness ==
    /\ m_round = 2
    /\ ~Loads(m_text).raised
    /\ ~TitleUnique(m_existing)
    /\ ~TitleUnique(m_text.entries)
    /\ Len(m_first.entries) >= 2

\* the entry the latest iteration consumed, and the record stored for its title
StepEntry == Loads(m_text).entries[m_k]
StepTitle == normalize_title(Get(StepEntry, "title", <<>>))
StepConflict ==
    /\ m_pc = "loop"
    /\ m_k > 0
    /\ Get(StepEntry, "title", <<>>) # <<>>
    /\ HasKey(m_prev.map, StepTitle)

\* C3: identifier continuity on update -- an incoming record with non-empty
\* title whose normalized title is stored and which has strictly more fields
\* replaces the stored record with its own field values, except ID, which is
\* the stored record's previous ID, and updated grows by one; with fewer or
\* equally many fields the stored record stays and no counter changes.
C3_IdContinuity ==
    StepConflict =>
        LET stored == Lookup(m_prev.map, StepTitle)
            now == Lookup(m_acc.map, StepTitle)
        IN  IF FieldCount(StepEntry) > FieldCount(stored)
            THEN /\ DOMAIN now = DOMAIN StepEntry
                 /\ \A f \in DOMAIN StepEntry \ {"ID"} : now[f] = StepEntry[f]
                 /\ now["ID"] = stored["ID"]
                 /\ m_acc.updated = m_prev.updated + 1
                 /\ m_acc.added = m_prev.added
                 /\ m_acc.map.keys = m_prev.map.keys
            ELSE m_acc = m_prev

\* an incoming record with another ID and more fields has just won
C3_Witness ==
    /\ StepConflict
    /\ FieldCount(StepEntry) > FieldCount(Lookup(m_prev.map, StepTitle))
    /\ StepEntry["ID"] # Lookup(m_prev.map, StepTitle)["ID"]
    /\ Lookup(m_acc.map, StepTitle)["ID"] = Lookup(m_prev.map, StepTitle)["ID"]

\* the (normalized title, normalized ID) pair of the entry at position i
PairAt(entries, i) ==
    <<normalize_title(IF "title" \in DOMAIN entries[i] THEN entries[i]["title"] ELSE <<>>),
      normalize_id(IF "ID" \in DOMAIN entries[i] THEN entries[i]["ID"] ELSE <<>>)>>

\* the positions holding the first occurrence of their pair
FirstOccurrences(entries) ==
    {i \in 1..Len(entries) : \A j \in 1..(i - 1) : PairAt(entries, j) # PairAt(entries, i)}

\* C10: exact-duplicate filter -- remove_exact_duplicates returns exactly the
\* first occurrence of each distinct (normalized title, normalized ID) pair,
\* in the original relative order; two records with empty title and empty ID
\* are the same pair; nothing but the input sequence is consulted.
C10_FirstOccurrences ==
    m_pc # "start" =>
        m_filtered = AtPositions(m_text.entries, FirstOccurrences(m_text.entries))

\* a later record with the empty pair and a later record differing only in
\* the case of its ID were dropped, a record with another ID was kept
C10_Witness ==
    /\ m_pc # "start"
    /\ Len(m_text.entries) = 3
    /\ Len(m_filtered) = 1
    /\ PairAt(m_text.entries, 1) = <<<<>>, <<>>>>
    /\ m_text.entries[2] # m_text.entries[1]

(***************************************************************************)
(* Properties of the session (Spec).                                       *)
(***************************************************************************)
\* the elements of a sequence
ToSet(q) == {q[i] : i \in 1..Len(q)}

\* the records of all similarity groups
GroupMembersOf(groups) == UNION {ToSet(groups[g]) : g \in 1..Len(groups)}

\* the step is the Import Files click / the Continue Import click
ImportStep == ops' = ops + 1 /\ last'.op = "import"
ContinueStep == InReview /\ last'.op = "continue"

\* C4: conflict reassembly -- on Continue Import the batch handed to the
\* merge engine is exactly the selected member of each surfaced group plus
\* every record of the filtered batch that is a member of no surfaced group:
\* no non-conflicted record is lost, no unselected member is included.
C4_Reassembly ==
    [][ContinueStep =>
          /\ ToSet(last'.handed) =
                {similar_groups[g][Get(conflict_selections, g - 1, 0) + 1] :
                    g \in 1..Len(similar_groups)}
                \cup (ToSet(all_new_entries) \ GroupMembersOf(similar_groups))
          /\ Len(last'.handed) = Cardinality(ToSet(last'.handed))]_vars

\* C5: batch-level all-or-nothing on parse failure -- an Import Files click
\* one of whose files fails to parse under both parser attempts merges no
\* record of the batch and leaves the collection exactly as it was; and
\* merge_bib_data on a text that does not parse returns the collection as it
\* was, with added = updated = 0.
C5_AllOrNothing ==
    /\ [][(ImportStep /\ last'.failed > 0) =>
             (db_entries' = db_entries /\ ~last'.merged)]_vars
    /\ [](\A t \in BadTexts :
            merge_bib_data(db_entries, t) = [entries |-> db_entries, added |-> 0, updated |-> 0])

\* C6: pending state is cleared on confirmation -- after Continue Import
\* none of similar_groups, all_new_entries, conflict_selections,
\* import_phase and conflicts_processed is held, so the review page is not
\* shown again for that import.
C6_PendingCleared ==
    last.op = "continue" =>
        /\ session_keys \cap ImportKeys = {}
        /\ ~InReview
        /\ similar_groups = <<>>
        /\ all_new_entries = <<>>
        /\ conflict_selections = <<>>

\* C7: a later import starts clean -- an import that reaches the review phase
\* after an unconfirmed one has every selection at the default index 0 and
\* groups and stored batch derived from the new input alone.
C7_StartsClean ==
    (last.op = "import" /\ InReview) =>
        /\ \A g \in 0..(Len(similar_groups) - 1) :
              g \in DOMAIN conflict_selections => conflict_selections[g] = 0
        /\ ToSet(all_new_entries) = last.readable
        /\ similar_groups = find_similar_entries(all_new_entries, db_entries).groups

\* C8: collection invariant in every reachable session state -- no two
\* records of the live collection share the same normalized title.
C8_LiveTitleUnique == TitleUnique(db_entries)

\* C9: no decision is final before confirmation -- while an import awaits
\* selections, selection changes and reruns leave the collection, the groups
\* and the stored batch unchanged and keep the latest selection of every
\* group; Continue Import applies the selections of all groups at once and
\* ends the review, so it fires at most once per pending import.
C9_NoDecisionBeforeConfirm ==
    [][/\ (InReview /\ last' # last /\ last'.op \in {"select", "rerun"}) =>
             /\ db_entries' = db_entries
             /\ similar_groups' = similar_groups
             /\ all_new_entries' = all_new_entries
             /\ InReview'
             /\ DOMAIN conflict_selections \subseteq DOMAIN conflict_selections'
             /\ \A j \in DOMAIN conflict_selections' :
                   conflict_selections'[j] =
                      IF last'.op = "select" /\ j = last'.group
                      THEN last'.option ELSE Get(conflict_selections, j, 0)
       /\ ContinueStep =>
             /\ \A g \in 1..Len(similar_groups) :
                   last'.handed[g] =
                      similar_groups[g][Get(conflict_selections, g - 1, 0) + 1]
             /\ ~InReview'
             /\ "similar_groups" \notin session_keys'
      ]_vars

(***************************************************************************)
(* C11: similarity grouping is anchor-only.  Scanning the batch in order,  *)
(* each record not yet processed becomes an anchor; its group is the       *)
(* anchor plus exactly the later, not yet processed records whose          *)
(* normalized ID or normalized title equals the anchor's; every record of  *)
(* the batch is in at most one group; the groups returned are those of     *)
(* size at least 2 whose anchor does not exactly match a library record,   *)
(* in anchor order.                                                        *)
(***************************************************************************)
\* records i and j of the batch share a normalized ID or a normalized title
Similar(entries, i, j) ==
    \/ normalize_id(Get(entries[i], "ID", <<>>)) = normalize_id(Get(entries[j], "ID", <<>>))
    \/ normalize_title(Get(entries[i], "title", <<>>))
         = normalize_title(Get(entries[j], "title", <<>>))

\* the anchors: the positions similar to no earlier anchor
Anchors(entries) ==
    CHOOSE A \in SUBSET (1..Len(entries)) :
        \A i \in 1..Len(entries) :
            i \in A <=> ~ \E k \in A : k < i /\ Similar(entries, k, i)

\* the anchor that takes position j: j itself, or the first anchor similar to it
AnchorOf(entries, j) ==
    CHOOSE k \in Anchors(entries) :
        /\ k = j \/ (k < j /\ Similar(entries, k, j))
        /\ \A h \in Anchors(entries) :
              (h = j \/ (h < j /\ Similar(entries, h, j))) => k <= h

\* the group of anchor i, in batch order
AnchorGroup(entries, i) ==
    AtPositions(entries, {j \in 1..Len(entries) : AnchorOf(entries, j) = i})

\* some library record has the anchor's normalized title and its ID, or the
\* anchor's normalized ID and its title
ExactlyMatches(entry, existing_entries) ==
    \E n \in 1..Len(existing_entries) :
        LET e == existing_entries[n]
        IN  \/ /\ normalize_title(Get(e, "title", <<>>))
                    = normalize_title(Get(entry, "title", <<>>))
               /\ Get(e, "ID", <<>>) = Get(entry, "ID", <<>>)
            \/ /\ normalize_id(Get(e, "ID", <<>>)) = normalize_id(Get(entry, "ID", <<>>))
               /\ Get(e, "title", <<>>) = Get(entry, "title", <<>>)

\* the groups the grouper is to return
AnchorGroups(entries, existing_entries) ==
    LET surfaced == {i \in Anchors(entries) :
                        /\ Len(AnchorGroup(entries, i)) >= 2
                        /\ ~ExactlyMatches(entries[i], existing_entries)}
        order == SelectSeq([k \in 1..Len(entries) |-> k], LAMBDA k : k \in surfaced)
    IN  [m \in 1..Len(order) |-> AnchorGroup(entries, order[m])]

\* C11: the call returns, and returns the anchor groups; no record is in
\* two of them
C11_AnchorOnlyGroups ==
    m_pc # "start" =>
        /\ m_pc = "returned"
        /\ similar_groups = AnchorGroups(m_text.entries, m_existing)
        /\ \A g, h \in 1..Len(similar_groups) :
              g # h => ToSet(similar_groups[g]) \cap ToSet(similar_groups[h]) = {}

(***************************************************************************)
(* C12: untitled records are never added.  An incoming record whose title  *)
(* is absent or empty does not appear in the merged collection and does    *)
(* not change added or updated, whatever its other fields.                 *)
(***************************************************************************)
\* the title is absent or empty
Untitled(entry) == Get(entry, "title", <<>>) = <<>>

\* the text without its untitled entries
WithoutUntitled(text) ==
    [text EXCEPT !.entries = SelectSeq(text.entries, LAMBDA e : ~Untitled(e))]

\* the first call has returned
FirstReturned == m_round = 2

\* C12 as stated: no untitled record of the batch is in the merged
\* collection, and the counters are those of the batch without them
C12_UntitledAbsent ==
    (FirstReturned /\ ~Loads(m_text).raised) =>
        /\ \A k \in 1..Len(m_text.entries) :
              Untitled(m_text.entries[k]) => m_text.entries[k] \notin ToSet(m_first.entries)
        /\ m_first.added = merge_bib_data(m_existing, WithoutUntitled(m_text)).added
        /\ m_first.updated = merge_bib_data(m_existing, WithoutUntitled(m_text)).updated

\* C12, amended: the merge returns what it returns for the batch without
\* its untitled records (collection, added and updated), so an untitled
\* record is in the merged collection only if the existing collection
\* already held it
C12_UntitledNotAdded ==
    FirstReturned =>
        /\ m_first = merge_bib_data(m_existing, WithoutUntitled(m_text))
        /\ \A n \in 1..Len(m_first.entries) :
              Untitled(m_first.entries[n]) => m_first.entries[n] \in ToSet(m_existing)

\* a batch with a record without title, a record with an empty title and
\* other fields, and a titled record that was added to a non-empty library
C12_Witness ==
    /\ FirstReturned
    /\ ~Loads(m_text).raised
    /\ \E k \in 1..Len(m_text.entries) : "title" \notin DOMAIN m_text.entries[k]
    /\ \E k \in 1..Len(m_text.entries) :
          /\ "title" \in DOMAIN m_text.entries[k]
          /\ m_text.entries[k]["title"] = <<>>
          /\ "year" \in DOMAIN m_text.entries[k]
    /\ m_first.added = 1
    /\ m_existing # <<>>
    /\ \A n \in 1..Len(m_existing) : ~Untitled(m_existing[n])

(***************************************************************************)
(* C13: the merge engine's input is conflict-free.  On every path of the   *)
(* import pipeline that reaches the merge engine (the direct merge when no *)
(* group is surfaced, or Continue Import), the batch handed to it holds no *)
(* two records that share a normalized title or a normalized ID.           *)
(***************************************************************************)
C13_HandedConflictFree ==
    last.merged =>
        \A i, j \in 1..Len(last.handed) :
            i < j => ~Similar(last.handed, i, j)

(***************************************************************************)
(* C14: merge output order.  The merged collection lists first one record  *)
(* per normalized title of the existing collection, in the order of the    *)
(* existing collection (a record replaced by a winning incoming record     *)
(* keeps the position of the record it replaces), followed by the newly    *)
(* added incoming records in batch order.                                  *)
(***************************************************************************)
\* the normalized titles of a sequence of records
TitlesOf(entries) ==
    [n \in 1..Len(entries) |-> normalize_title(Get(entries[n], "title", <<>>))]

\* the positions that hold the first record of their normalized title
FirstOfTitle(entries) ==
    {n \in 1..Len(entries) :
        \A h \in 1..(n - 1) : TitlesOf(entries)[h] # TitlesOf(entries)[n]}

\* the positions of the batch whose record is newly added: titled, of a
\* normalized title the existing collection does not have, and the first
\* such record of the batch
NewlyAdded(existing_entries, entries) ==
    {k \in 1..Len(entries) :
        /\ ~Untitled(entries[k])
        /\ TitlesOf(entries)[k] \notin ToSet(TitlesOf(existing_entries))
        /\ \A h \in 1..(k - 1) :
              Untitled(entries[h]) \/ TitlesOf(entries)[h] # TitlesOf(entries)[k]}

\* C14: the titles of the merged collection are those of the existing one
\* in its order, then those of the newly added records in batch order;
\* where nothing was replaced the records themselves are the existing ones
\* followed by the newly added ones
C14_OutputOrder ==
    (FirstReturned /\ ~Loads(m_text).raised) =>
        LET kept == AtPositions(m_existing, FirstOfTitle(m_existing))
            new == AtPositions(m_text.entries, NewlyAdded(m_existing, m_text.entries))
        IN  /\ TitlesOf(m_first.entries) = TitlesOf(kept) \o TitlesOf(new)
            /\ Len(new) = m_first.added
            /\ (m_first.updated = 0 /\ TitleUnique(m_existing))
                   => m_first.entries = m_existing \o new

\* the first of two existing records was replaced by an incoming record
\* that came after a newly added one
C14_Witness ==
    /\ FirstReturned
    /\ ~Loads(m_text).raised
    /\ Len(m_existing) = 2
    /\ Len(m_first.entries) = 3
    /\ m_first.updated = 1
    /\ m_first.added = 1
    /\ m_first.entries[1] # m_existing[1]
    /\ m_first.entries[2] = m_existing[2]
    /\ m_first.entries[3] = m_text.entries[1]

====
